---- MODULE Spec2Model ----
(***************************************************************************)
(* FinDoc-Intelligence: the pattern-based extraction engine                *)
(* (src/src/data_extractor.py, class DataExtractor) and its two output     *)
(* adapters.                                                               *)
(*                                                                         *)
(* A document text is a sequence of tokens.  A token is either one         *)
(* character ("1", ",", " ", "\n", ...) or one label literal of the        *)
(* registry ("Credit Limit", "Revenue", ...), which stands for the         *)
(* characters of that literal.  The currency characters are written        *)
(* "GBP", "USD", "EUR" (pound, dollar, euro sign).                         *)
(***************************************************************************)
EXTENDS Integers, Sequences, FiniteSets, TLC

(* ---------------------------------------------------------------------- *)
(* Bounds of the model                                                     *)
(* ---------------------------------------------------------------------- *)
MaxLines == 2
MaxClock == 1
MaxCalls == 2
MaxThreads == 2

(* ---------------------------------------------------------------------- *)
(* Character classes of Python's re, restricted to the modelled tokens     *)
(* ---------------------------------------------------------------------- *)
Digit == {"0", "1", "2", "3", "4", "5", "6", "7", "8", "9"}
Comma == {","}
Currency == {"GBP", "USD", "EUR"}
Newline == {"\n"}
Space == {" ", "\n"}
Letter == {"A", "B", "G", "d", "o", "x"}
(* [\d,\-]: the class of an amount that takes a minus sign *)
DigitCommaMinus == Digit \cup Comma \cup {"-"}

DigitComma == Digit \cup Comma
Word == Letter \cup Digit \cup {"_"}

DigitVal(d) ==
  CASE d = "0" -> 0 [] d = "1" -> 1 [] d = "2" -> 2 [] d = "3" -> 3
    [] d = "4" -> 4 [] d = "5" -> 5 [] d = "6" -> 6 [] d = "7" -> 7
    [] d = "8" -> 8 [] d = "9" -> 9

(* text[i], or the end-of-text mark "" outside the text *)
At(text, i) == IF i \in 1..Len(text) THEN text[i] ELSE ""

(* a greedy run X* from position i: the first position not in class X *)
RunEnd(text, i, X) ==
  CHOOSE j \in i..(Len(text) + 1) :
    /\ \A k \in i..(j - 1) : text[k] \in X
    /\ At(text, j) \notin X

SetMin(S) == CHOOSE x \in S : \A y \in S : x <= y
SetMax(S) == CHOOSE x \in S : \A y \in S : x >= y

(* ---------------------------------------------------------------------- *)
(* Values stored in a dict: str, int, float, None, a timestamp, or a       *)
(* reference to another dict of the heap                                   *)
(* ---------------------------------------------------------------------- *)
StrVal(s) == [kind |-> "str", s |-> s, num |-> 0, scale |-> 0]
IntVal(n) == [kind |-> "int", s |-> <<>>, num |-> n, scale |-> 0]
FloatVal(n, sc) == [kind |-> "float", s |-> <<>>, num |-> n, scale |-> sc]
BoolVal(b) == [kind |-> "bool", s |-> <<>>, num |-> IF b THEN 1 ELSE 0, scale |-> 0]
TimeVal(t) == [kind |-> "time", s |-> <<>>, num |-> t, scale |-> 0]
RefVal(a) == [kind |-> "ref", s |-> <<>>, num |-> a, scale |-> 0]
NoneVal == [kind |-> "none", s |-> <<>>, num |-> 0, scale |-> 0]

EmptyDict == [k \in {} |-> NoneVal]
DictSet(d, k, v) == [x \in (DOMAIN d) \cup {k} |-> IF x = k THEN v ELSE d[x]]
(* dict.update(other): the keys of other overwrite those of d *)
DictUpdate(d, other) ==
  [x \in (DOMAIN d) \cup (DOMAIN other) |-> IF x \in DOMAIN other THEN other[x] ELSE d[x]]

(* ---------------------------------------------------------------------- *)
(* The pattern registry.  Each compiled pattern has the shape              *)
(*    label  gap  [currency \s*]  ( capture )  ...                         *)
(* gap "ws" is \s* after the label's colon, gap "lazy" is .*? (any         *)
(* characters but a newline, as few as possible); cur says whether a       *)
(* currency character [GBP USD EUR] is absent from the pattern ("none"),   *)
(* optional ("opt") or required ("req"); cap names the capture group.      *)
(* ---------------------------------------------------------------------- *)
DunsDigits == 9
LeiChars == 20
YearDigits == 4

Pat(labels, gap, cur, cap) == [labels |-> labels, gap |-> gap, cur |-> cur, cap |-> cap]

init_patterns ==
  [ company_name |-> Pat({"Company Name:"}, "ws", "none", "line"),
    registration_number |-> Pat({"Registration Number:"}, "ws", "none", "digits"),
    lei_code |-> Pat({"LEI Code:"}, "ws", "none", "lei"),
    duns_number |-> Pat({"DUNS Number:"}, "ws", "none", "duns"),
    credit_score |-> Pat({"Credit Score:"}, "ws", "none", "digits"),
    credit_rating |-> Pat({"Credit Rating:"}, "ws", "none", "rating"),
    credit_limit |-> Pat({"Credit Limit"}, "lazy", "opt", "digcomma"),
    risk_level |-> Pat({"Risk Level:"}, "ws", "none", "line"),
    revenue |-> Pat({"Revenue"}, "lazy", "req", "digcomma"),
    turnover |-> Pat({"Turnover"}, "lazy", "req", "digcomma"),
    profit |-> Pat({"Profit Before Tax"}, "lazy", "req", "digcomma"),
    total_assets |-> Pat({"Total Assets:"}, "ws", "req", "digcomma"),
    total_liabilities |-> Pat({"Total Liabilities:"}, "ws", "req", "digcomma"),
    net_worth |-> Pat({"Net Worth:"}, "ws", "req", "digcomma"),
    debt_to_equity |-> Pat({"Debt-to-Equity"}, "lazy", "none", "decimal"),
    current_ratio |-> Pat({"Current Ratio:"}, "ws", "none", "decimal"),
    profit_margin |-> Pat({"Profit Margin:"}, "ws", "none", "decimal"),
    payment_terms |-> Pat({"Payment Terms:"}, "ws", "none", "line"),
    on_time_percentage |-> Pat({"On-Time Payment:", "On-Time Payments:"}, "ws", "none", "ontime"),
    average_payment_days |-> Pat({"Average Payment Days:"}, "ws", "none", "digits"),
    incorporation_date |-> Pat({"Date of Incorporation:"}, "ws", "none", "date"),
    report_date |-> Pat({"Report Date:"}, "ws", "none", "date") ]

(* ---------------------------------------------------------------------- *)
(* re.search: the match object, or None                                    *)
(* ---------------------------------------------------------------------- *)
NoMatch == [found |-> FALSE, group1 |-> <<>>]
Match(text, a, b) == [found |-> TRUE, group1 |-> SubSeq(text, a, b)]

(* A label literal starts with letters, which a letter class of another   *)
(* pattern can capture: LabelHead is the leading run of [A-Za-z+-] of each *)
(* label that goes on with another character, WholeHead the labels made of *)
(* such characters only, WholeWord those made of \w characters only.       *)
LabelHead ==
  [l \in {"Company Name:", "Registration Number:", "LEI Code:", "DUNS Number:",
          "Credit Score:", "Credit Rating:", "Credit Limit", "Risk Level:",
          "Profit Before Tax", "Total Assets:", "Total Liabilities:", "Net Worth:",
          "Current Ratio:", "Profit Margin:", "Payment Terms:", "On-Time Payment:",
          "On-Time Payments:", "Average Payment Days:", "Date of Incorporation:",
          "Report Date:"} |->
     CASE l = "Company Name:" -> "Company"
       [] l = "Registration Number:" -> "Registration"
       [] l = "LEI Code:" -> "LEI"
       [] l = "DUNS Number:" -> "DUNS"
       [] l \in {"Credit Score:", "Credit Rating:", "Credit Limit"} -> "Credit"
       [] l = "Risk Level:" -> "Risk"
       [] l \in {"Profit Before Tax", "Profit Margin:"} -> "Profit"
       [] l \in {"Total Assets:", "Total Liabilities:"} -> "Total"
       [] l = "Net Worth:" -> "Net"
       [] l = "Current Ratio:" -> "Current"
       [] l = "Payment Terms:" -> "Payment"
       [] l \in {"On-Time Payment:", "On-Time Payments:"} -> "On-Time"
       [] l = "Average Payment Days:" -> "Average"
       [] l = "Date of Incorporation:" -> "Date"
       [] l = "Report Date:" -> "Report"]
WholeHead == {"Revenue", "Turnover", "Debt-to-Equity"}
WholeWord == {"Revenue", "Turnover"}

(* \d{n}: n digits from position r *)
DigitsFrom(text, r, n) == \A k \in r..(r + n - 1) : At(text, k) \in Digit

(* the first newline or the end of the text after position j *)
LineEnd(text, j) == SetMin({k \in (j + 1)..(Len(text) + 1) : At(text, k) \in Newline \cup {""}})

(* the capture group and what the pattern requires after it, tried at r *)
CaptureAt(cap, text, r) ==
  CASE cap = "digits" ->      \* (\d+)
         IF At(text, r) \in Digit THEN Match(text, r, RunEnd(text, r, Digit) - 1) ELSE NoMatch
    [] cap = "digcomma" ->    \* ([\d,]+)
         IF At(text, r) \in DigitComma
         THEN Match(text, r, RunEnd(text, r, DigitComma) - 1) ELSE NoMatch
    [] cap = "duns" ->        \* (\d{9})
         IF DigitsFrom(text, r, DunsDigits) THEN Match(text, r, r + DunsDigits - 1) ELSE NoMatch
    [] cap = "lei" ->         \* ([A-Z0-9]{20}), IGNORECASE
         IF \A k \in r..(r + LeiChars - 1) : At(text, k) \in Letter \cup Digit
         THEN Match(text, r, r + LeiChars - 1) ELSE NoMatch
    [] cap = "rating" ->      \* ([A-Z][A-Z+\-]*), IGNORECASE
         IF At(text, r) \in Letter \cup WholeHead
         THEN LET e == RunEnd(text, r + 1, Letter \cup {"+", "-"} \cup WholeHead)
              IN  IF At(text, e) \in DOMAIN LabelHead
                  THEN [found |-> TRUE, group1 |-> SubSeq(text, r, e - 1) \o <<LabelHead[At(text, e)]>>]
                  ELSE Match(text, r, e - 1)
         ELSE IF At(text, r) \in DOMAIN LabelHead
              THEN [found |-> TRUE, group1 |-> <<LabelHead[At(text, r)]>>]
              ELSE NoMatch
    [] cap = "decimal" ->     \* (\d+\.?\d*)
         IF At(text, r) \in Digit
         THEN LET e1 == RunEnd(text, r, Digit)
                  e2 == IF At(text, e1) = "." THEN RunEnd(text, e1 + 1, Digit) ELSE e1
              IN  Match(text, r, e2 - 1)
         ELSE NoMatch
    [] cap = "ontime" ->      \* \d+\s*\((\d+)%\)
         IF At(text, r) \in Digit
         THEN LET e2 == RunEnd(text, RunEnd(text, r, Digit), Space)
                  e3 == RunEnd(text, e2 + 1, Digit)
              IN  IF /\ At(text, e2) = "("
                     /\ At(text, e2 + 1) \in Digit
                     /\ At(text, e3) = "%"
                     /\ At(text, e3 + 1) = ")"
                  THEN Match(text, e2 + 1, e3 - 1) ELSE NoMatch
         ELSE NoMatch
    [] cap = "date" ->        \* (\d{1,2}\s+\w+\s+\d{4})
         IF At(text, r) \in Digit
         THEN LET e1 == IF At(text, r + 1) \in Digit THEN r + 2 ELSE r + 1
                  e2 == RunEnd(text, e1, Space)
                  e3 == RunEnd(text, e2, Word \cup WholeWord)
                  e4 == RunEnd(text, e3, Space)
              IN  IF /\ At(text, e1) \in Space
                     /\ At(text, e2) \in Word \cup WholeWord
                     /\ At(text, e3) \in Space
                     /\ DigitsFrom(text, e4, YearDigits)
                  THEN Match(text, r, e4 + YearDigits - 1) ELSE NoMatch
         ELSE NoMatch
    [] cap = "line" ->        \* (.+?)(?:\n|$)
         IF At(text, r) \notin Newline \cup {""}
         THEN Match(text, r, LineEnd(text, r) - 1) ELSE NoMatch

(* [currency]? \s* before the capture: where the capture is tried when    *)
(* the tail of the pattern is tried at q, 0 when the currency is missing   *)
CaptureStart(pat, text, q) ==
  CASE pat.cur = "none" -> q
    [] pat.cur = "req" -> IF At(text, q) \in Currency THEN RunEnd(text, q + 1, Space) ELSE 0
    [] pat.cur = "opt" -> RunEnd(text, IF At(text, q) \in Currency THEN q + 1 ELSE q, Space)

FromStart(pat, text, r) == IF r = 0 THEN NoMatch ELSE CaptureAt(pat.cap, text, r)

(* the pattern after its label and gap, tried at q *)
TailAt(pat, text, q) == FromStart(pat, text, CaptureStart(pat, text, q))

(* the positions at which the gap after the label (at p - 1) may end: \s*  *)
(* ends anywhere in the run of whitespace, .*? anywhere before a newline   *)
GapEnds(pat, text, p) ==
  IF pat.gap = "ws"
  THEN p..RunEnd(text, p, Space)
  ELSE {q \in p..(Len(text) + 1) : \A k \in p..(q - 1) : text[k] \notin Newline}

(* \s* is greedy, so the last gap end that leads to a match is taken; .*?  *)
(* is lazy, so the first one is                                            *)
TakeGap(pat, text, Q) ==
  IF Q = {} THEN NoMatch
  ELSE TailAt(pat, text, IF pat.gap = "ws" THEN SetMax(Q) ELSE SetMin(Q))

(* the pattern anchored at position s (the label starts there) *)
MatchAt(pat, text, s) ==
  IF At(text, s) \notin pat.labels THEN NoMatch
  ELSE TakeGap(pat, text, {q \in GapEnds(pat, text, s + 1) : TailAt(pat, text, q).found})

(* the match at the last position that has one *)
Rightmost(pat, text, S) == IF S = {} THEN NoMatch ELSE MatchAt(pat, text, SetMax(S))

Leftmost(pat, text, S) == IF S = {} THEN NoMatch ELSE MatchAt(pat, text, SetMin(S))

(* Pattern.search(text): the match at the leftmost position that has one *)
search(pat, text) == Leftmost(pat, text, {s \in 1..Len(text) : MatchAt(pat, text, s).found})

(* ---------------------------------------------------------------------- *)
(* Conversions of a captured substring                                     *)
(* ---------------------------------------------------------------------- *)
RECURSIVE DigitsToNat(_)
DigitsToNat(s) ==
  IF s = <<>> THEN 0
  ELSE 10 * DigitsToNat(SubSeq(s, 1, Len(s) - 1)) + DigitVal(s[Len(s)])

NotComma(c) == c \notin Comma

(* value.replace(',', '') *)
replace_commas(s) == SelectSeq(s, NotComma)

(* str.strip(): without the leading and trailing whitespace *)
strip(s) ==
  LET K == {k \in 1..Len(s) : s[k] \notin Space}
  IN  IF K = {} THEN <<>> ELSE SubSeq(s, SetMin(K), SetMax(K))

Ok(v) == [ok |-> TRUE, val |-> v]
ValueError == [ok |-> FALSE, val |-> NoneVal]

(* int(s) and float(s) take a sign before the digits *)
Sign(s) == IF s /= <<>> /\ s[1] = "-" THEN -1 ELSE 1
Unsigned(s) == IF s /= <<>> /\ s[1] \in {"+", "-"} THEN Tail(s) ELSE s

(* int(s): a ValueError unless s is a non-empty run of digits *)
PositiveInt(s, sign) ==
  IF s /= <<>> /\ \A k \in 1..Len(s) : s[k] \in Digit
  THEN Ok(IntVal(sign * DigitsToNat(s))) ELSE ValueError
to_int(s) == PositiveInt(Unsigned(s), Sign(s))

(* float(s): a ValueError unless s is digits with at most one point and at *)
(* least one digit; the value is num / 10^scale without trailing zeros     *)
PositiveFloat(s, sign) ==
  LET dots == {k \in 1..Len(s) : s[k] = "."}
      dot == IF dots = {} THEN Len(s) + 1 ELSE SetMin(dots)
      ip == SubSeq(s, 1, dot - 1)
      fp == SubSeq(s, dot + 1, Len(s))
      nz == {k \in 1..Len(fp) : fp[k] /= "0"}
      fr == IF nz = {} THEN <<>> ELSE SubSeq(fp, 1, SetMax(nz))
  IN  IF /\ \A k \in 1..Len(s) : s[k] \in Digit \cup {"."}
         /\ Cardinality(dots) <= 1
         /\ Len(ip) + Len(fp) >= 1
      THEN Ok(FloatVal(sign * DigitsToNat(ip \o fr), Len(fr))) ELSE ValueError
(* float(s) that keeps the digits before the point only *)
IntegerPart(s) == SubSeq(s, 1, SetMin({k \in 1..(Len(s) + 1) : At(s, k) \in {".", ""}}) - 1)
to_float_integral(s) == PositiveFloat(IntegerPart(Unsigned(s)), Sign(s))

to_float(s) == PositiveFloat(Unsigned(s), Sign(s))

(* what each extractor does with group(1) before it stores it *)
Convert(kind, g) ==
  CASE kind = "strip" -> Ok(StrVal(strip(g)))
    [] kind = "raw" -> Ok(StrVal(g))
    [] kind = "int" -> to_int(g)
    [] kind = "money" -> to_float(replace_commas(g))
    [] kind = "float" -> to_float(g)

(* "match = A.search(text); if not match: match = B.search(text)" *)
OrElse(match, other) == IF match.found THEN match ELSE other

(* the match a field is taken from: revenue tries Revenue, then Turnover *)
FieldMatch(pats, key, text) ==
  IF key = "revenue"
  THEN OrElse(search(pats.revenue, text), search(pats.turnover, text))
  ELSE search(pats[key], text)

(* the dict of an _extract_* method whose fields matched as in match and   *)
(* convert as in conv: the method raises when a conversion raises          *)
Outcome(match, conv) ==
  IF \E k \in DOMAIN match : match[k].found /\ ~conv[k].ok
  THEN [raised |-> TRUE, dict |-> EmptyDict]
  ELSE [raised |-> FALSE, dict |-> [k \in {x \in DOMAIN match : match[x].found} |-> conv[k].val]]

Conversions(kinds, match) == [k \in DOMAIN kinds |-> Convert(kinds[k], match[k].group1)]

Converted(kinds, match) == Outcome(match, Conversions(kinds, match))

(* One _extract_* method: kinds maps each of its fields to its conversion *)
Extracted(pats, text, kinds) ==
  Converted(kinds, [k \in DOMAIN kinds |-> FieldMatch(pats, k, text)])

CompanyInfoFields ==
  [company_name |-> "strip", registration_number |-> "raw",
   lei_code |-> "raw", duns_number |-> "raw"]
CreditMetricsFields ==
  [credit_score |-> "int", credit_rating |-> "raw",
   credit_limit |-> "money", risk_level |-> "strip"]
FinancialDataFields ==
  [revenue |-> "money", profit |-> "money", total_assets |-> "money",
   total_liabilities |-> "money", net_worth |-> "money",
   debt_to_equity |-> "float", current_ratio |-> "float", profit_margin |-> "float"]
PaymentInfoFields ==
  [payment_terms |-> "strip", on_time_percentage |-> "int", average_payment_days |-> "int"]
DatesFields ==
  [incorporation_date |-> "raw", report_date |-> "raw"]

extract_company_info(pats, text) == Extracted(pats, text, CompanyInfoFields)

extract_credit_metrics(pats, text) == Extracted(pats, text, CreditMetricsFields)

extract_financial_data(pats, text) == Extracted(pats, text, FinancialDataFields)

extract_payment_info(pats, text) == Extracted(pats, text, PaymentInfoFields)

(* extract_dates with a None placeholder for every date that did not match *)
WithPlaceholders(r, keys) ==
  [raised |-> r.raised,
   dict |-> [k \in keys |-> IF k \in DOMAIN r.dict THEN r.dict[k] ELSE NoneVal]]
extract_dates_placeholders(pats, text) ==
  WithPlaceholders(Extracted(pats, text, DatesFields), DOMAIN DatesFields)

extract_dates(pats, text) == Extracted(pats, text, DatesFields)

(* ---------------------------------------------------------------------- *)
(* The heap: every Python dict is an object with an address (its index in  *)
(* heap); a dict that holds another dict holds a reference to it.          *)
(* ---------------------------------------------------------------------- *)
Categories == <<"company_info", "credit_metrics", "financial_data", "payment_info", "dates">>

Range(f) == {f[x] : x \in DOMAIN f}

RECURSIVE SumOver(_, _)
SumOver(S, f) ==
  IF S = {} THEN 0
  ELSE LET x == CHOOSE y \in S : TRUE IN f[x] + SumOver(S \ {x}, f)

(* the dict at address a with the dicts it refers to in place of the       *)
(* references: the value a caller sees                                     *)
Deref(h, a) ==
  [k \in DOMAIN h[a] |-> IF h[a][k].kind = "ref" THEN h[h[a][k].num] ELSE h[a][k]]

(* count_extracted_fields with 'dates' left out of the category list *)
count_extracted_fields_no_dates(h, extracted) ==
  LET present == {c \in Range(Categories) \ {"dates"} : c \in DOMAIN h[extracted]}
  IN  SumOver(present, [c \in present |-> Cardinality(DOMAIN h[h[extracted][c].num])])

count_extracted_fields(h, extracted) ==
  LET present == {c \in Range(Categories) : c \in DOMAIN h[extracted]}
  IN  SumOver(present, [c \in present |-> Cardinality(DOMAIN h[h[extracted][c].num])])

(* what extract_all returns for "not text" *)
ErrorResult(h) ==
  [raised |-> FALSE,
   heap |-> Append(h, [error |-> StrVal(<<"No text provided">>)]),
   result |-> Len(h) + 1]

(* extract_all from the dict literal on: ci .. dt are the outcomes of the  *)
(* five _extract_* calls, each [raised, dict]                              *)
BuildResult(h, ci, cm, fd, pi, dt, now) ==
  LET n == Len(h)
      extracted == [extraction_timestamp |-> TimeVal(now),
                    company_info |-> RefVal(n + 1),
                    credit_metrics |-> RefVal(n + 2),
                    financial_data |-> RefVal(n + 3),
                    payment_info |-> RefVal(n + 4),
                    dates |-> RefVal(n + 5)]
      h1 == h \o <<ci.dict, cm.dict, fd.dict, pi.dict, dt.dict, extracted>>
      total_fields == count_extracted_fields(h1, n + 6)
      summary == [total_fields_extracted |-> IntVal(total_fields),
                  extraction_complete |-> BoolVal(total_fields > 0)]
  IN  IF ci.raised \/ cm.raised \/ fd.raised \/ pi.raised \/ dt.raised
      THEN [raised |-> TRUE, heap |-> h, result |-> 0]
      ELSE [raised |-> FALSE,
            heap |-> [Append(h1, summary) EXCEPT
                        ![n + 6] = DictSet(@, "extraction_summary", RefVal(n + 7))],
            result |-> n + 6]

(* extract_all without the "if not text" guard *)
extract_all_unguarded(h, pats, text, now) ==
  BuildResult(h, extract_company_info(pats, text), extract_credit_metrics(pats, text),
              extract_financial_data(pats, text), extract_payment_info(pats, text),
              extract_dates(pats, text), now)

(* extract_all with report_date falling back to the time of the call *)
StampDates(r, now) ==
  [raised |-> r.raised,
   dict |-> IF "report_date" \in DOMAIN r.dict THEN r.dict
            ELSE DictSet(r.dict, "report_date", TimeVal(now))]
extract_all_stamped(h, pats, text, now) ==
  IF text = <<>>
  THEN ErrorResult(h)
  ELSE BuildResult(h, extract_company_info(pats, text), extract_credit_metrics(pats, text),
                   extract_financial_data(pats, text), extract_payment_info(pats, text),
                   StampDates(extract_dates(pats, text), now), now)

(* extract_all(text) called at time now with the heap h: whether it        *)
(* raised, the heap after the call and the address of the dict returned    *)
extract_all(h, pats, text, now) ==
  IF text = <<>>
  THEN ErrorResult(h)
  ELSE BuildResult(h, extract_company_info(pats, text), extract_credit_metrics(pats, text),
                   extract_financial_data(pats, text), extract_payment_info(pats, text),
                   extract_dates(pats, text), now)

(* format_for_duckdb that also merges the 'dates' category *)
format_for_duckdb_with_dates(h, extracted, document_id) ==
  LET e == h[extracted]
      upd(rec, c) == IF c \in DOMAIN e THEN DictUpdate(rec, h[e[c].num]) ELSE rec
      r0 == [document_id |-> document_id]
      r1 == upd(r0, "company_info")
      r2 == upd(r1, "credit_metrics")
      r3 == upd(r2, "financial_data")
      r4 == upd(r3, "payment_info")
      r5 == upd(r4, "dates")
  IN  [heap |-> Append(h, r5), record |-> Len(h) + 1]

(* format_for_duckdb that starts from the company_info dict itself rather  *)
(* than from a new dict: record = extracted.get('company_info', {})        *)
format_for_duckdb_alias(h, extracted, document_id) ==
  LET e == h[extracted]
      upd(rec, c) == IF c \in DOMAIN e THEN DictUpdate(rec, h[e[c].num]) ELSE rec
      r0 == IF "company_info" \in DOMAIN e THEN h[e.company_info.num] ELSE EmptyDict
      r1 == DictSet(r0, "document_id", document_id)
      r2 == upd(r1, "credit_metrics")
      r3 == upd(r2, "financial_data")
      r4 == upd(r3, "payment_info")
  IN  IF "company_info" \in DOMAIN e
      THEN [heap |-> [h EXCEPT ![e.company_info.num] = r4], record |-> e.company_info.num]
      ELSE [heap |-> Append(h, r4), record |-> Len(h) + 1]

(* format_for_duckdb(extracted, document_id): the heap after the call and  *)
(* the address of the record returned                                      *)
format_for_duckdb(h, extracted, document_id) ==
  LET e == h[extracted]
      upd(rec, c) == IF c \in DOMAIN e THEN DictUpdate(rec, h[e[c].num]) ELSE rec
      r0 == [document_id |-> document_id]
      r1 == upd(r0, "company_info")
      r2 == upd(r1, "credit_metrics")
      r3 == upd(r2, "financial_data")
      r4 == upd(r3, "payment_info")
  IN  [heap |-> Append(h, r4), record |-> Len(h) + 1]

(* ---------------------------------------------------------------------- *)
(* format_for_display: the report is the sequence of its lines             *)
(* ---------------------------------------------------------------------- *)
CurrencyThreshold == 1000

RECURSIVE Pow10(_)
Pow10(n) == IF n = 0 THEN 1 ELSE 10 * Pow10(n - 1)

(* the order in which each _extract_* method inserts its keys, which is    *)
(* the order dict.items() yields them in                                   *)
InsertionOrder ==
  [company_info |-> <<"company_name", "registration_number", "lei_code", "duns_number">>,
   credit_metrics |-> <<"credit_score", "credit_rating", "credit_limit", "risk_level">>,
   financial_data |-> <<"revenue", "profit", "total_assets", "total_liabilities",
                        "net_worth", "debt_to_equity", "current_ratio", "profit_margin">>,
   payment_info |-> <<"payment_terms", "on_time_percentage", "average_payment_days">>]

SectionTitle ==
  [company_info |-> "COMPANY INFORMATION", credit_metrics |-> "CREDIT METRICS",
   financial_data |-> "FINANCIAL DATA", payment_info |-> "PAYMENT INFORMATION"]

(* the characters of each field key *)
KeyChars ==
  [company_name |-> <<"c", "o", "m", "p", "a", "n", "y", "_", "n", "a", "m",
        "e">>,
   registration_number |-> <<"r", "e", "g", "i", "s", "t", "r", "a", "t",
        "i", "o", "n", "_", "n", "u", "m", "b", "e", "r">>,
   lei_code |-> <<"l", "e", "i", "_", "c", "o", "d", "e">>,
   duns_number |-> <<"d", "u", "n", "s", "_", "n", "u", "m", "b", "e", "r">>,
   credit_score |-> <<"c", "r", "e", "d", "i", "t", "_", "s", "c", "o", "r",
        "e">>,
   credit_rating |-> <<"c", "r", "e", "d", "i", "t", "_", "r", "a", "t", "i",
        "n", "g">>,
   credit_limit |-> <<"c", "r", "e", "d", "i", "t", "_", "l", "i", "m", "i",
        "t">>,
   risk_level |-> <<"r", "i", "s", "k", "_", "l", "e", "v", "e", "l">>,
   revenue |-> <<"r", "e", "v", "e", "n", "u", "e">>,
   profit |-> <<"p", "r", "o", "f", "i", "t">>,
   total_assets |-> <<"t", "o", "t", "a", "l", "_", "a", "s", "s", "e", "t",
        "s">>,
   total_liabilities |-> <<"t", "o", "t", "a", "l", "_", "l", "i", "a", "b",
        "i", "l", "i", "t", "i", "e", "s">>,
   net_worth |-> <<"n", "e", "t", "_", "w", "o", "r", "t", "h">>,
   debt_to_equity |-> <<"d", "e", "b", "t", "_", "t", "o", "_", "e", "q",
        "u", "i", "t", "y">>,
   current_ratio |-> <<"c", "u", "r", "r", "e", "n", "t", "_", "r", "a", "t",
        "i", "o">>,
   profit_margin |-> <<"p", "r", "o", "f", "i", "t", "_", "m", "a", "r", "g",
        "i", "n">>,
   payment_terms |-> <<"p", "a", "y", "m", "e", "n", "t", "_", "t", "e", "r",
        "m", "s">>,
   on_time_percentage |-> <<"o", "n", "_", "t", "i", "m", "e", "_", "p", "e",
        "r", "c", "e", "n", "t", "a", "g", "e">>,
   average_payment_days |-> <<"a", "v", "e", "r", "a", "g", "e", "_", "p",
        "a", "y", "m", "e", "n", "t", "_", "d", "a", "y", "s">>]

LowerCase == <<"a", "b", "c", "d", "e", "f", "g", "h", "i", "j", "k", "l", "m",
               "n", "o", "p", "q", "r", "s", "t", "u", "v", "w", "x", "y", "z">>
UpperCase == <<"A", "B", "C", "D", "E", "F", "G", "H", "I", "J", "K", "L", "M",
               "N", "O", "P", "Q", "R", "S", "T", "U", "V", "W", "X", "Y", "Z">>
IndexIn(c, alphabet) == CHOOSE n \in 1..Len(alphabet) : alphabet[n] = c
IsCased(c) == c \in Range(LowerCase) \cup Range(UpperCase)
upper(c) == IF c \in Range(LowerCase) THEN UpperCase[IndexIn(c, LowerCase)] ELSE c
lower(c) == IF c \in Range(UpperCase) THEN LowerCase[IndexIn(c, UpperCase)] ELSE c

(* key.replace('_', ' ') *)
replace_underscores(s) == [n \in 1..Len(s) |-> IF s[n] = "_" THEN " " ELSE s[n]]

(* str.capitalize(): the first character in upper case, the rest in lower *)
capitalize(s) == [n \in 1..Len(s) |-> IF n = 1 THEN upper(s[n]) ELSE lower(s[n])]

(* str.title(): a cased character is in upper case after an uncased one or *)
(* at the start, in lower case after a cased one                           *)
title(s) ==
  [n \in 1..Len(s) |-> IF n > 1 /\ IsCased(s[n - 1]) THEN lower(s[n]) ELSE upper(s[n])]

(* a line of the report; label is the text before the colon of a field line *)
Line(kind, key, value, fmt) ==
  [kind |-> kind, key |-> key, value |-> value, fmt |-> fmt, label |-> <<>>]
Labelled(line, label) == [line EXCEPT !.label = label]
RuleLine == Line("rule", "", NoneVal, "plain")
BlankLine == Line("blank", "", NoneVal, "plain")
TitleLine(t) == Line("title", t, NoneVal, "plain")

(* how a field's value is written: "currency" is the pound sign with       *)
(* thousands separators and no decimals, "percent" is the value and "%"    *)
DisplayFormat(category, key, value) ==
  CASE category = "credit_metrics" ->
         IF key = "credit_limit" /\ value.kind \in {"int", "float", "bool"}
         THEN "currency" ELSE "plain"
    [] category = "financial_data" ->
         IF value.kind = "float" /\ value.num > CurrencyThreshold * Pow10(value.scale)
         THEN "currency" ELSE "plain"
    [] category = "payment_info" ->
         IF key = "on_time_percentage" THEN "percent" ELSE "plain"
    [] OTHER -> "plain"

RECURSIVE FieldLines(_, _, _)
FieldLines(category, order, dict) ==
  IF order = <<>> THEN <<>>
  ELSE LET key == Head(order)
           rest == FieldLines(category, Tail(order), dict)
       IN  IF key \in DOMAIN dict
           THEN <<Labelled(Line("field", key, dict[key], DisplayFormat(category, key, dict[key])),
                           title(replace_underscores(KeyChars[key])))>> \o rest
           ELSE rest

(* format_for_display(extracted): the heap after the call and the report  *)
format_for_display(h, extracted) ==
  LET e == h[extracted]
      section(c) ==
        IF c \in DOMAIN e /\ DOMAIN h[e[c].num] /= {}
        THEN <<TitleLine(SectionTitle[c]), RuleLine>>
               \o FieldLines(c, InsertionOrder[c], h[e[c].num]) \o <<BlankLine>>
        ELSE <<>>
      summary ==
        IF "extraction_summary" \in DOMAIN e /\ DOMAIN h[e.extraction_summary.num] /= {}
        THEN LET sm == h[e.extraction_summary.num]
             IN  <<TitleLine("EXTRACTION SUMMARY"), RuleLine,
                   Labelled(Line("field", "total_fields_extracted", sm.total_fields_extracted, "plain"),
                            <<"T", "o", "t", "a", "l", " ", "F", "i", "e", "l", "d", "s", " ",
                              "E", "x", "t", "r", "a", "c", "t", "e", "d">>),
                   Labelled(Line("field", "extraction_status", sm.extraction_complete, "status"),
                            <<"E", "x", "t", "r", "a", "c", "t", "i", "o", "n", " ",
                              "S", "t", "a", "t", "u", "s">>)>>
        ELSE <<>>
  IN  [heap |-> h,
       report |-> <<RuleLine, TitleLine("EXTRACTED FINANCIAL DATA"), RuleLine, BlankLine>>
                    \o section("company_info") \o section("credit_metrics")
                    \o section("financial_data") \o section("payment_info")
                    \o summary \o <<BlankLine, RuleLine>>]

(* ---------------------------------------------------------------------- *)
(* The documents the model runs on: up to MaxLines lines, each a label of  *)
(* the registry, a separator and a value, joined by newlines               *)
(* ---------------------------------------------------------------------- *)
MoneyLabels == {"Credit Limit", "Revenue", "Turnover"}

MoneyValues ==
  { <<"7">>,                       \* 7
    <<"GBP", "1", ",", "5">>,      \* a currency amount: pound sign, 1,5
    <<",">>,                       \* commas only
    <<"GBP", ",">> }               \* a currency sign and commas only

DocLines ==
  {<<l, ":", " ">> \o v : l \in MoneyLabels, v \in MoneyValues}
    \cup { <<"Registration Number:", " ", "0", "7">>,
           <<"Average Payment Days:", " ", "7">>,
           <<"Report Date:", " ", "1", " ", "x", " ", "2", "0", "2", "4">>,
           <<"Credit Limit", ":", " ", "-", "7">>,         \* a minus sign before the value
           <<"Average Payment Days:", " ", "-", "7">>,
           <<"Risk Level:">>,                              \* a label without a value
           <<"Risk Level:", " ">>,                         \* a label and a blank
           <<"Risk Level:", " ", " ", "A", " ">> }         \* a value between blanks

RECURSIVE Docs(_)
Docs(n) ==
  IF n = 0 THEN {<<>>}
  ELSE Docs(n - 1) \cup DocLines \cup {d \o <<"\n">> \o l : d \in Docs(n - 1) \ {<<>>}, l \in DocLines}

(* five lines of the sample report *)
ScenarioText ==
  <<"Registration Number:", " ", "0", "8", "7", "6", "5", "4", "3", "2", "\n",
    "Credit Score:", " ", "7", "5", " ", "/", " ", "1", "0", "0", "\n",
    "Credit Rating:", " ", "B", "+", " ", "(", "G", "o", "o", "d", ")", "\n",
    "Revenue", " ", "(", "Turnover", ")", ":", " ", "GBP", "4", ",", "8", "5", "0", ",", "0", "0", "0", "\n",
    "Current Ratio:", " ", "1", ".", "8", "5">>

Texts == Docs(MaxLines) \cup {ScenarioText}

Extractors == {1, 2}

(* the threads that call extract_all of extractor 1 at the same time, and   *)
(* the texts they call it with                                              *)
Threads == 1..MaxThreads

(* the sessions of the app, each with its own st.session_state *)
MaxSessions == 3
Sessions == 1..MaxSessions
ThreadTexts ==
  { <<>>,
    <<"Credit Limit", ":", " ", ",">>,
    <<"Revenue", ":", " ", "GBP", "1", ",", "5">>,
    <<"Risk Level:", "\n", "Report Date:", " ", "1", " ", "x", " ", "2", "0", "2", "4">> }
DocumentIds == {NoneVal, IntVal(1)}

(* ---------------------------------------------------------------------- *)
(* DocumentProcessor.  A text is a sequence of characters, a file is its   *)
(* name, what stat() says of it, and what the PDF or OCR library makes of  *)
(* its content: the texts of its pages, or an exception with a message     *)
(* ---------------------------------------------------------------------- *)
MaxPages == 2
MaxUploads == 2

(* \s of re and the characters str.strip() removes *)
Whitespace == {" ", "\t", "\n"}

pdf_formats == {<<".", "p", "d", "f">>}
image_formats ==
  {<<".", "p", "n", "g">>, <<".", "j", "p", "g">>, <<".", "j", "p", "e", "g">>,
   <<".", "t", "i", "f", "f">>, <<".", "b", "m", "p">>}

(* Path.suffix and Path.stem: the name is cut at its last dot, unless that *)
(* dot is the first or the last character                                  *)
LastDot(name) ==
  LET D == {k \in 1..Len(name) : name[k] = "."}
  IN  IF D = {} THEN 0 ELSE SetMax(D)
HasSuffix(name) == 1 < LastDot(name) /\ LastDot(name) < Len(name)
suffix(name) == IF HasSuffix(name) THEN SubSeq(name, LastDot(name), Len(name)) ELSE <<>>
stem(name) == IF HasSuffix(name) THEN SubSeq(name, 1, LastDot(name) - 1) ELSE name

(* str.lower() *)
lower_str(s) == [n \in 1..Len(s) |-> lower(s[n])]

(* sep.join(parts) *)
RECURSIVE join(_, _)
join(sep, parts) ==
  IF parts = <<>> THEN <<>>
  ELSE IF Len(parts) = 1 THEN parts[1]
  ELSE parts[1] \o sep \o join(sep, Tail(parts))

(* text.split(sep), sep one character *)
RECURSIVE split(_, _)
split(t, sep) ==
  LET N == {k \in 1..Len(t) : t[k] = sep}
  IN  IF N = {} THEN <<t>>
      ELSE <<SubSeq(t, 1, SetMin(N) - 1)>> \o split(SubSeq(t, SetMin(N) + 1, Len(t)), sep)

(* re.sub(r'\s+', ' ', text): every run of whitespace becomes one blank *)
RECURSIVE sub_whitespace(_)
sub_whitespace(t) ==
  IF t = <<>> THEN <<>>
  ELSE IF t[1] \in Whitespace
       THEN <<" ">> \o sub_whitespace(SubSeq(t, RunEnd(t, 1, Whitespace), Len(t)))
       ELSE <<t[1]>> \o sub_whitespace(Tail(t))

(* line.strip() *)
strip_line(s) ==
  LET K == {k \in 1..Len(s) : s[k] \notin Whitespace}
  IN  IF K = {} THEN <<>> ELSE SubSeq(s, SetMin(K), SetMax(K))

NotEmpty(s) == s /= <<>>

clean_text(t) ==
  IF t = <<>> THEN <<>>
  ELSE LET lines == split(sub_whitespace(t), "\n")
           stripped == [n \in 1..Len(lines) |-> strip_line(lines[n])]
       IN  join(<<"\n">>, SelectSeq(stripped, NotEmpty))

(* what an extractor gives: a text, or an exception with str(e) = message *)
Extracted_text(t) == [raised |-> FALSE, text |-> t, message |-> <<>>]
Extraction_raises(m) == [raised |-> TRUE, text |-> <<>>, message |-> m]

(* the texts of the pages that have one, joined by a blank line *)
extract_from_pdf(content) ==
  IF content.raised THEN Extraction_raises(content.message)
  ELSE Extracted_text(join(<<"\n", "\n">>, SelectSeq(content.pages, NotEmpty)))

(* the text Tesseract reads in the picture *)
extract_from_image(content) ==
  IF content.raised THEN Extraction_raises(content.message)
  ELSE Extracted_text(IF content.pages = <<>> THEN <<>> ELSE content.pages[1])

Returns(d) == [raised |-> FALSE, result |-> d]
Raises == [raised |-> TRUE, result |-> EmptyDict]

Failure(error, file_type, name) ==
  [success |-> FALSE, error |-> StrVal(error), text |-> <<>>,
   file_type |-> file_type, file_name |-> name]

Success(t, file_type, name) ==
  [success |-> TRUE, text |-> clean_text(t), raw_text |-> t, file_type |-> StrVal(file_type),
   file_name |-> name, file_path |-> name, error |-> NoneVal]

(* the try block of process_document, with the text the extractor gave *)
Processed(x, file_type, file_ext, name) ==
  IF x.raised THEN Failure(x.message, StrVal(file_ext), name)
  ELSE Success(x.text, file_type, name)

(* file_path.exists() is outside the try block: it is False for a file    *)
(* that is not there, and raises the OSError of any other failure of stat *)
process_document(file) ==
  LET file_ext == lower_str(suffix(file.name))
  IN  IF file.stat = "error" THEN Raises
      ELSE IF file.stat = "missing"
      THEN Returns(Failure(<<"File not found: ">> \o file.name, NoneVal, file.name))
      ELSE IF file_ext \in pdf_formats
      THEN Returns(Processed(extract_from_pdf(file.content), <<"pdf">>, file_ext, file.name))
      ELSE IF file_ext \in image_formats
      THEN Returns(Processed(extract_from_image(file.content), <<"image">>, file_ext, file.name))
      ELSE Returns(Failure(<<"Unsupported file format: ">> \o file_ext, NoneVal, file.name))

(* ---------------------------------------------------------------------- *)
(* State                                                                   *)
(* ---------------------------------------------------------------------- *)
VARIABLES
  patterns,   \* patterns[e]: self.patterns of extractor e, EmptyDict before __init__
  clock,      \* datetime.now()
  text,       \* the text the extract_all calls are made on
  calls,      \* the extract_all calls so far: outcome, dict returned, its value at return
  heap,       \* the dicts
  flat,       \* the last format_for_duckdb call: its arguments, the record, changed since?
  report,     \* the last format_for_display call: its argument and the lines returned
  threads,    \* threads[th]: the extract_all call thread th is in, with its locals
  session,    \* st.session_state: current_document and extracted_text
  processed,  \* the files of data/processed
  runs,       \* the process_uploaded_document calls so far: the file and the outcome
  conversations, \* the rows of the conversations table, in rowid order
  documents,  \* the rows of the documents table
  metrics,    \* the rows of the financial_metrics table
  sqlite_sequence, \* the last id given to a row of the conversations table
  oplog,      \* the save_conversation and clear_session_history calls so far
  dbclock,    \* CURRENT_TIMESTAMP of the database, in seconds
  history,    \* the last get_conversation_history call: its arguments and the list returned
  db_instance, \* the module global _db_instance: 0 is None
  managers,   \* the number of DatabaseManager objects constructed
  getters     \* getters[s]: the get_db call session s is in, and what it got

extractorVars == <<patterns, clock, text, calls, heap, flat, report, threads>>
appVars == <<session, processed, runs>>
dbVars == <<conversations, sqlite_sequence, oplog, documents, metrics, dbclock, history>>
singletonVars == <<db_instance, managers, getters>>
otherVars == <<appVars, dbVars, singletonVars>>
vars == <<extractorVars, otherVars>>

NoFlat == [extracted |-> 0, document_id |-> NoneVal, record |-> 0, changed |-> FALSE]
NoReport == [extracted |-> 0, lines |-> <<>>]

(* init_session_state: no document yet *)
NoSession == [current_document |-> NoneVal, extracted_text |-> NoneVal]

(* no get_conversation_history call yet *)
NoHistory == [asked |-> FALSE, session_id |-> "", limit |-> 0, rows |-> <<>>]

(* a session that has not called get_db *)
NotCalling == [pc |-> "idle", made |-> 0, db |-> 0]

(* a thread that has not called extract_all *)
Idle == [pc |-> "idle", text |-> <<>>, now |-> 0, parts |-> <<>>, result |-> 0]

Init ==
  /\ patterns = [e \in Extractors |-> init_patterns]
  /\ clock = 0
  /\ text = <<>>
  /\ calls = <<>>
  /\ heap = <<>>
  /\ flat = NoFlat
  /\ report = NoReport
  /\ threads = [th \in Threads |-> Idle]
  /\ session = NoSession
  /\ processed = EmptyDict
  /\ runs = <<>>
  /\ conversations = <<>>
  /\ documents = <<>>
  /\ metrics = <<>>
  /\ sqlite_sequence = 0
  /\ oplog = <<>>
  /\ dbclock = 0
  /\ history = NoHistory
  /\ db_instance = 0
  /\ managers = 0
  /\ getters = [s \in Sessions |-> NotCalling]

(* DataExtractor(): __init__ builds the registry of extractor e again *)
Construct(e) ==
  /\ patterns' = [patterns EXCEPT ![e] = init_patterns]
  /\ UNCHANGED <<clock, text, calls, heap, flat, report, threads, otherVars>>

(* extractor e runs extract_all(t) at time now; every call after the first *)
(* is on the same text                                                     *)
ExtractAll(e, t, now) ==
  /\ Len(calls) < MaxCalls
  /\ flat = NoFlat /\ report = NoReport
  /\ LET r == extract_all(heap, patterns[e], t, now)
     IN  /\ heap' = r.heap
         /\ calls' = Append(calls,
              [outcome |-> IF r.raised THEN "raised" ELSE "returned",
               result |-> r.result,
               returned |-> IF r.raised THEN EmptyDict ELSE Deref(r.heap, r.result)])
  /\ text' = t
  /\ clock' = now
  /\ UNCHANGED <<patterns, flat, report, threads, otherVars>>

(* the caller passes the result of call i to format_for_duckdb *)
FormatForDuckdb(i, d) ==
  /\ i \in 1..Len(calls)
  /\ calls[i].outcome = "returned"
  /\ flat.record = 0
  /\ LET r == format_for_duckdb(heap, calls[i].result, d)
     IN  /\ heap' = r.heap
         /\ flat' = [extracted |-> calls[i].result, document_id |-> d,
                     record |-> r.record, changed |-> FALSE]
  /\ UNCHANGED <<patterns, clock, text, calls, report, threads, otherVars>>

(* the caller passes the result of call i to format_for_display *)
FormatForDisplay(i) ==
  /\ i \in 1..Len(calls)
  /\ calls[i].outcome = "returned"
  /\ report.extracted = 0
  /\ LET r == format_for_display(heap, calls[i].result)
     IN  /\ heap' = r.heap
         /\ report' = [extracted |-> calls[i].result, lines |-> r.report]
  /\ UNCHANGED <<patterns, clock, text, calls, flat, threads, otherVars>>

(* the caller changes the flat record it was given: record[k] = v *)
ChangeRecord(k, v) ==
  /\ flat.record /= 0
  /\ ~flat.changed
  /\ heap' = [heap EXCEPT ![flat.record] = DictSet(@, k, v)]
  /\ flat' = [flat EXCEPT !.changed = TRUE]
  /\ UNCHANGED <<patterns, clock, text, calls, report, threads, otherVars>>

Next ==
  \/ \E e \in Extractors : Construct(e)
  \/ \E e \in Extractors, t \in (IF calls = <<>> THEN Texts ELSE {text}), now \in clock..MaxClock :
       ExtractAll(e, t, now)
  \/ \E i \in 1..MaxCalls, d \in DocumentIds : FormatForDuckdb(i, d)
  \/ \E i \in 1..MaxCalls : FormatForDisplay(i)
  \/ \E k \in {"revenue", "document_id"} : ChangeRecord(k, IntVal(0))

Spec == Init /\ [][Next]_vars

(* ---------------------------------------------------------------------- *)
(* extract_all run by several threads on one extractor: a thread switch    *)
(* can come between any two of the calls extract_all makes                 *)
(* ---------------------------------------------------------------------- *)

(* the text argument of the extract_all call of each thread, taken from    *)
(* the last call made by any thread                                        *)
TextOf_shared(th) == text

(* the text argument of the extract_all call of thread th *)
TextOf(th) == threads[th].text

ExtractCategory(c, pats, t) ==
  CASE c = "company_info" -> extract_company_info(pats, t)
    [] c = "credit_metrics" -> extract_credit_metrics(pats, t)
    [] c = "financial_data" -> extract_financial_data(pats, t)
    [] c = "payment_info" -> extract_payment_info(pats, t)
    [] c = "dates" -> extract_dates(pats, t)

(* thread th calls extract_all(t): "if not text: return {'error': ...}" *)
ThreadCall(th, t) ==
  /\ threads[th].pc = "idle"
  /\ text' = t
  /\ IF t = <<>>
     THEN /\ heap' = ErrorResult(heap).heap
          /\ threads' = [threads EXCEPT ![th] =
                           [@ EXCEPT !.pc = "done", !.result = ErrorResult(heap).result]]
     ELSE /\ heap' = heap
          /\ threads' = [threads EXCEPT ![th] = [@ EXCEPT !.pc = "timestamp", !.text = t]]
  /\ UNCHANGED <<patterns, clock, calls, flat, report, otherVars>>

(* datetime.now().isoformat(), the first entry of the dict literal *)
ThreadTimestamp(th, now) ==
  /\ threads[th].pc = "timestamp"
  /\ clock' = now
  /\ threads' = [threads EXCEPT ![th] = [@ EXCEPT !.pc = "extract", !.now = now]]
  /\ UNCHANGED <<patterns, text, calls, heap, flat, report, otherVars>>

(* the next self._extract_*(text) call of the dict literal; an exception   *)
(* ends the call of extract_all                                            *)
ThreadExtract(th) ==
  /\ threads[th].pc = "extract"
  /\ LET k == Len(threads[th].parts) + 1
         r == ExtractCategory(Categories[k], patterns[1], TextOf(th))
     IN  threads' = [threads EXCEPT ![th] =
           IF r.raised THEN [@ EXCEPT !.pc = "raised"]
           ELSE [@ EXCEPT !.pc = IF k = Len(Categories) THEN "summary" ELSE "extract",
                          !.parts = Append(@, r)]]
  /\ UNCHANGED <<patterns, clock, text, calls, heap, flat, report, otherVars>>

(* the dict is built, the fields are counted, the summary is added and the *)
(* dict is returned                                                        *)
ThreadReturn(th) ==
  /\ threads[th].pc = "summary"
  /\ LET p == threads[th].parts
         r == BuildResult(heap, p[1], p[2], p[3], p[4], p[5], threads[th].now)
     IN  /\ heap' = r.heap
         /\ threads' = [threads EXCEPT ![th] = [@ EXCEPT !.pc = "done", !.result = r.result]]
  /\ UNCHANGED <<patterns, clock, text, calls, flat, report, otherVars>>

NextThreads ==
  \/ \E th \in Threads, t \in ThreadTexts : ThreadCall(th, t)
  \/ \E th \in Threads, now \in clock..MaxClock : ThreadTimestamp(th, now)
  \/ \E th \in Threads : ThreadExtract(th)
  \/ \E th \in Threads : ThreadReturn(th)

SpecThreads == Init /\ [][NextThreads]_vars

(* ---------------------------------------------------------------------- *)
(* The app: a document is uploaded and processed                           *)
(* ---------------------------------------------------------------------- *)
Names ==
  { <<"a", ".", "p", "d", "f">>, <<"a", ".", "P", "D", "F">>, <<"b", ".", "p", "n", "g">>,
    <<"a", ".", "t", "x", "t">>, <<"a">>, <<".", "p", "d", "f">> }

PageTexts ==
  { <<>>,
    <<"A", ":", "\n", "B">>,
    <<" ", "A", " ", "\t", "1", " ", "\n", "\n">> }

(* str(e) of the exceptions of the PDF and OCR libraries: an exception     *)
(* built without arguments has the empty message                          *)
Messages == { <<>>, <<"No /Root object! - Is this really a PDF?">> }

RECURSIVE Pages(_)
Pages(n) ==
  IF n = 0 THEN {<<>>}
  ELSE Pages(n - 1) \cup {Append(ps, t) : ps \in Pages(n - 1), t \in PageTexts}

Contents ==
  {[raised |-> FALSE, pages |-> ps, message |-> <<>>] : ps \in Pages(MaxPages)}
    \cup {[raised |-> TRUE, pages |-> <<>>, message |-> m] : m \in Messages}

Files ==
  {[name |-> n, stat |-> "exists", content |-> c] : n \in Names, c \in Contents}
    \cup {[name |-> n, stat |-> st, content |-> [raised |-> FALSE, pages |-> <<>>, message |-> <<>>]] :
            n \in Names, st \in {"missing", "error"}}

(* st.session_state.current_document = ...; st.session_state.extracted_text = ... *)
SetSession_always(s, result) ==
  [current_document |-> StrVal(result.file_name), extracted_text |-> StrVal(result.text)]

SetSession(s, result) ==
  IF result.success
  THEN [current_document |-> StrVal(result.file_name), extracted_text |-> StrVal(result.text)]
  ELSE s

(* INSERT INTO documents (filename, file_type, text_length, document_type, processed) *)
save_document_metadata(docs, now, filename, file_type, text_length, document_type) ==
  Append(docs,
    [id |-> Len(docs) + 1, filename |-> filename, file_type |-> file_type,
     upload_timestamp |-> now, processed |-> TRUE, text_length |-> text_length,
     document_type |-> document_type])

(* the file <stem>_extracted.txt is written, over the one that was there *)
save_extracted_text(files, result) ==
  IF ~result.success THEN files
  ELSE DictSet(files, stem(result.file_name) \o <<"_extracted.txt">>,
         [extracted_from |-> result.file_name, file_type |-> result.file_type,
          characters |-> Len(result.text), text |-> result.text])

AppState(s, docs, files, outcome, p) ==
  [session |-> s, documents |-> docs, processed |-> files, outcome |-> outcome, processing |-> p]

(* process_uploaded_document(file_path): an exception of process_document, *)
(* of the INSERT or of the write ends the call where it is raised          *)
process_uploaded_document(s, docs, files, now, file, fault) ==
  LET p == process_document(file)
      result == p.result
      s1 == SetSession(s, result)
  IN  IF p.raised THEN AppState(s, docs, files, "raised", p)
      ELSE IF ~result.success THEN AppState(s1, docs, files, "failure", p)
      ELSE IF fault = "database" THEN AppState(s1, docs, files, "raised", p)
      ELSE LET docs1 == save_document_metadata(docs, now, result.file_name, result.file_type,
                                               Len(result.text), NoneVal)
           IN  IF fault = "disk" THEN AppState(s1, docs1, files, "raised", p)
               ELSE AppState(s1, docs1, save_extracted_text(files, result), "success", p)

ProcessUploadedDocument(file, fault) ==
  /\ Len(runs) < MaxUploads
  /\ LET r == process_uploaded_document(session, documents, processed, dbclock, file, fault)
     IN  /\ session' = r.session
         /\ documents' = r.documents
         /\ processed' = r.processed
         /\ runs' = Append(runs, [file |-> file, outcome |-> r.outcome, processing |-> r.processing])
  /\ UNCHANGED <<extractorVars, conversations, sqlite_sequence, oplog, metrics, dbclock, history,
               singletonVars>>

(* what can go wrong after the text is extracted: the INSERT or the write *)
NextDocuments ==
  \E file \in Files, fault \in {"none", "database", "disk"} : ProcessUploadedDocument(file, fault)

SpecDocuments == Init /\ [][NextDocuments]_vars

(* ---------------------------------------------------------------------- *)
(* DatabaseManager: the conversations and documents tables of SQLite and   *)
(* the financial_metrics table of DuckDB                                   *)
(* ---------------------------------------------------------------------- *)
MaxOps == 3
MaxDbClock == 1
MaxRows == 1

SessionIds == {"s1", "s2"}
UserMessages == {"q1", "q2"}
Limits == {0, 1, 2, 50}

(* INSERT INTO conversations: id is AUTOINCREMENT, timestamp is            *)
(* CURRENT_TIMESTAMP, which has a resolution of one second                 *)
save_conversation(rows, seq, now, session_id, user_message, assistant_message) ==
  Append(rows,
    [id |-> seq + 1, session_id |-> session_id, timestamp |-> now,
     user_message |-> user_message, assistant_message |-> assistant_message,
     document_name |-> NoneVal, message_type |-> "chat"])

(* DELETE FROM conversations WHERE session_id = ? *)
clear_all_sessions(rows, session_id) == <<>>

clear_session_history(rows, session_id) ==
  LET Other(row) == row.session_id /= session_id
  IN  SelectSeq(rows, Other)

Reverse(q) == [n \in 1..Len(q) |-> q[Len(q) + 1 - n]]
Min(a, b) == IF a <= b THEN a ELSE b

(* the rows of session_id in an order ORDER BY timestamp DESC can give:    *)
(* the order of rows with the same timestamp is not set by the query       *)
DescOrders(rows, session_id) ==
  LET S == {n \in 1..Len(rows) : rows[n].session_id = session_id}
  IN  {[k \in 1..Cardinality(S) |-> rows[f[k]]] :
         f \in {g \in [1..Cardinality(S) -> S] :
                  /\ \A a, b \in 1..Cardinality(S) : a /= b => g[a] /= g[b]
                  /\ \A a, b \in 1..Cardinality(S) :
                       a < b => rows[g[a]].timestamp >= rows[g[b]].timestamp}}

(* the dict made of a row: the id is not selected *)
HistoryEntry(row) ==
  [timestamp |-> row.timestamp, user_message |-> row.user_message,
   assistant_message |-> row.assistant_message, document_name |-> row.document_name,
   message_type |-> row.message_type]

(* SELECT ... ORDER BY timestamp DESC LIMIT ?, the rows coming in the      *)
(* order sorted; the list is reversed                                      *)
get_conversation_history(sorted, limit) ==
  LET fetched == SubSeq(sorted, 1, Min(limit, Len(sorted)))
  IN  Reverse([n \in 1..Len(fetched) |-> HistoryEntry(fetched[n])])

(* the metrics saved: a dict of the keys of metric_mapping *)
MetricsDicts ==
  { EmptyDict,
    [k \in {"company_name"} |-> NoneVal],
    [k \in {"company_name", "revenue"} |->
       IF k = "revenue" THEN FloatVal(15, 1) ELSE StrVal(<<"A">>)] }

metric_mapping ==
  {"document_id", "company_name", "registration_number", "lei_code", "duns_number",
   "credit_score", "credit_rating", "revenue", "profit", "total_assets",
   "total_liabilities", "debt_to_equity", "current_ratio"}

(* the columns of the INSERT: the keys of the mapping that have a value *)
Columns(m) == {k \in metric_mapping : k \in DOMAIN m /\ m[k] /= NoneVal}

save_financial_metrics(rows, m) ==
  IF Columns(m) = {} THEN rows
  ELSE Append(rows, [k \in Columns(m) |-> m[k]])

SaveConversation(session_id, user_message) ==
  /\ ~history.asked
  /\ Len(oplog) < MaxOps
  /\ conversations' = save_conversation(conversations, sqlite_sequence, dbclock, session_id,
                         user_message, <<"I received your question: ", user_message>>)
  /\ sqlite_sequence' = sqlite_sequence + 1
  /\ oplog' = Append(oplog, [op |-> "save", session_id |-> session_id,
                             entry |-> HistoryEntry(conversations'[Len(conversations')])])
  /\ UNCHANGED <<extractorVars, appVars, documents, metrics, dbclock, history, singletonVars>>

ClearSessionHistory(session_id) ==
  /\ ~history.asked
  /\ Len(oplog) < MaxOps
  /\ conversations' = clear_session_history(conversations, session_id)
  /\ oplog' = Append(oplog, [op |-> "clear", session_id |-> session_id,
                             entry |-> EmptyDict])
  /\ UNCHANGED <<extractorVars, appVars, sqlite_sequence, documents, metrics, dbclock, history,
                 singletonVars>>

GetConversationHistory(session_id, limit) ==
  /\ ~history.asked
  /\ \E sorted \in DescOrders(conversations, session_id) :
       history' = [asked |-> TRUE, session_id |-> session_id, limit |-> limit,
                   rows |-> get_conversation_history(sorted, limit)]
  /\ UNCHANGED <<extractorVars, appVars, conversations, sqlite_sequence, oplog, documents,
                 metrics, dbclock, singletonVars>>

SaveDocumentMetadata(name) ==
  /\ ~history.asked
  /\ Len(documents) < MaxRows
  /\ documents' = save_document_metadata(documents, dbclock, name, StrVal(<<"pdf">>), 0, NoneVal)
  /\ UNCHANGED <<extractorVars, appVars, conversations, sqlite_sequence, oplog, metrics, dbclock,
                 history, singletonVars>>

(* the INSERT of DuckDB goes through, or raises and leaves the table *)
SaveFinancialMetrics(m, inserted) ==
  /\ ~history.asked
  /\ Len(metrics) < MaxRows
  /\ metrics' = IF inserted THEN save_financial_metrics(metrics, m) ELSE metrics
  /\ UNCHANGED <<extractorVars, appVars, conversations, sqlite_sequence, oplog, documents,
                 dbclock, history, singletonVars>>

(* a second goes by *)
Tick ==
  /\ ~history.asked
  /\ dbclock < MaxDbClock
  /\ dbclock' = dbclock + 1
  /\ UNCHANGED <<extractorVars, appVars, conversations, sqlite_sequence, oplog, documents,
                 metrics, history, singletonVars>>

NextDatabase ==
  \/ \E s \in SessionIds, m \in UserMessages : SaveConversation(s, m)
  \/ \E s \in SessionIds : ClearSessionHistory(s)
  \/ \E s \in SessionIds, limit \in Limits : GetConversationHistory(s, limit)
  \/ \E name \in {<<"a", ".", "p", "d", "f">>} : SaveDocumentMetadata(name)
  \/ \E m \in MetricsDicts, inserted \in BOOLEAN : SaveFinancialMetrics(m, inserted)
  \/ Tick

SpecDatabase == Init /\ [][NextDatabase]_vars

(* ---------------------------------------------------------------------- *)
(* get_db called by the sessions of the app, each in its own thread: a     *)
(* thread switch can come between the test, the constructor call, the      *)
(* assignment to the global and the return                                 *)
(* ---------------------------------------------------------------------- *)

(* "if _db_instance is None:" *)
GetDbTest(s) ==
  /\ getters[s].pc = "idle"
  /\ getters' = [getters EXCEPT ![s].pc = IF db_instance = 0 THEN "construct" ELSE "return"]
  /\ UNCHANGED <<extractorVars, appVars, dbVars, db_instance, managers>>

(* DatabaseManager(): a new object *)
GetDbConstruct(s) ==
  /\ getters[s].pc = "construct"
  /\ managers' = managers + 1
  /\ getters' = [getters EXCEPT ![s] = [@ EXCEPT !.pc = "assign", !.made = managers + 1]]
  /\ UNCHANGED <<extractorVars, appVars, dbVars, db_instance>>

(* "_db_instance = ..." *)
GetDbAssign(s) ==
  /\ getters[s].pc = "assign"
  /\ db_instance' = getters[s].made
  /\ getters' = [getters EXCEPT ![s].pc = "return"]
  /\ UNCHANGED <<extractorVars, appVars, dbVars, managers>>

(* "return _db_instance", and st.session_state.db = get_db() *)
GetDbReturn(s) ==
  /\ getters[s].pc = "return"
  /\ getters' = [getters EXCEPT ![s] = [@ EXCEPT !.pc = "done", !.db = db_instance]]
  /\ UNCHANGED <<extractorVars, appVars, dbVars, db_instance, managers>>

NextSingleton ==
  \/ \E s \in Sessions : GetDbTest(s)
  \/ \E s \in Sessions : GetDbConstruct(s)
  \/ \E s \in Sessions : GetDbAssign(s)
  \/ \E s \in Sessions : GetDbReturn(s)

SpecSingleton == Init /\ [][NextSingleton]_vars

(* ---------------------------------------------------------------------- *)
(* What the properties below are stated with                               *)
(* ---------------------------------------------------------------------- *)
CallIds == 1..Len(calls)
Returned(i) == calls[i].outcome = "returned"

MergedCategories == {"company_info", "credit_metrics", "financial_data", "payment_info"}

(* the (category, field) pairs and the field names present in a result *)
FieldPairs(r) ==
  UNION {{<<c, k>> : k \in DOMAIN r[c]} : c \in Range(Categories) \cap DOMAIN r}
FieldNames(r) == {p[2] : p \in FieldPairs(r)}

HasSummary(r) == "extraction_summary" \in DOMAIN r
Without(r, key) == [k \in (DOMAIN r) \ {key} |-> r[k]]

(* every field of the registry with its conversion *)
FieldKinds ==
  CompanyInfoFields @@ CreditMetricsFields @@ FinancialDataFields
    @@ PaymentInfoFields @@ DatesFields

(* for the text of the calls: what each field's pattern matches in it, the *)
(* fields whose capture does not convert, and those whose capture does     *)
TextMatches == [k \in DOMAIN FieldKinds |-> FieldMatch(init_patterns, k, text)]
Unconvertible(m, conv) == {k \in DOMAIN m : m[k].found /\ ~conv[k].ok}
Convertible(m, conv) == {k \in DOMAIN m : m[k].found /\ conv[k].ok}

(* The value written after a label, read off the text without the          *)
(* patterns: at position p a label, then ':' and blanks, then (with a      *)
(* currency sign if cur, with or without one otherwise) digits and commas  *)
(* beginning with a digit.  <<>> when there is none.                       *)
AmountFrom(t, a) == IF At(t, a) \in Digit THEN SubSeq(t, a, RunEnd(t, a, DigitComma) - 1) ELSE <<>>
AfterCurrency(t, q, cur) ==
  IF At(t, q) \in Currency THEN AmountFrom(t, q + 1)
  ELSE IF cur THEN <<>> ELSE AmountFrom(t, q)
ValueAfter(t, p, cur) == AfterCurrency(t, RunEnd(t, p + 1, {":", " "}), cur)
ValuedAt(t, label, cur) == {p \in 1..Len(t) : t[p] = label /\ ValueAfter(t, p, cur) /= <<>>}
HasValue(t, label, cur) == ValuedAt(t, label, cur) /= {}
AmountOf(t, label, cur) ==
  FloatVal(DigitsToNat(replace_commas(ValueAfter(t, SetMin(ValuedAt(t, label, cur)), cur))), 0)

(* ---------------------------------------------------------------------- *)
(* C1..C10                                                                 *)
(* ---------------------------------------------------------------------- *)

(* C1: extract_all is total: every call returns a result, none raises.     *)
C1_ExtractAllTotal == \A i \in CallIds : Returned(i)

(* C2: soft failure: when some field's pattern matches and its capture     *)
(* does not convert, the call still returns, and the result holds exactly  *)
(* the fields that matched and converted.                                  *)
SoftFailure(m, conv) ==
  \A i \in CallIds :
    Unconvertible(m, conv) /= {} =>
      Returned(i) /\ FieldNames(calls[i].returned) = Convertible(m, conv)
C2_SoftFailure == SoftFailure(TextMatches, Conversions(FieldKinds, TextMatches))

CountedRight(r) ==
  /\ HasSummary(r)
  /\ r.extraction_summary.total_fields_extracted = IntVal(Cardinality(FieldPairs(r)))
  /\ r.extraction_summary.extraction_complete = BoolVal(Cardinality(FieldPairs(r)) > 0)
C5_EqualResults ==
  \A i, j \in CallIds :
    Returned(i) /\ Returned(j) => calls[i].returned = calls[j].returned

(* C5 amended: two calls on the same text end the same way (both raise or  *)
(* both return), and two results are equal in everything but their         *)
(* extraction_timestamp.                                                   *)
C5_EqualButTimestamp ==
  \A i, j \in CallIds :
    /\ calls[i].outcome = calls[j].outcome
    /\ Returned(i) =>
         Without(calls[i].returned, "extraction_timestamp")
           = Without(calls[j].returned, "extraction_timestamp")

C5_Witness ==
  /\ Len(calls) = 2 /\ Returned(1) /\ Returned(2)
  /\ FieldPairs(calls[1].returned) /= {}
  /\ calls[1].returned.extraction_timestamp /= calls[2].returned.extraction_timestamp

(* C6: when the text has a Revenue label with a value and a Turnover label *)
(* with a value, the revenue field is the value of the Revenue label.      *)
C6_RevenueWins ==
  \A i \in CallIds :
    HasValue(text, "Revenue", FALSE) /\ HasValue(text, "Turnover", FALSE) =>
      /\ Returned(i)
      /\ "revenue" \in DOMAIN calls[i].returned.financial_data
      /\ calls[i].returned.financial_data.revenue = AmountOf(text, "Revenue", FALSE)

(* C7: when the text has a Turnover label followed by a currency amount    *)
(* and no Revenue label, the result has revenue equal to that amount, and  *)
(* no field named turnover.                                                *)
C7_TurnoverFallback ==
  \A i \in CallIds :
    HasValue(text, "Turnover", TRUE) /\ "Revenue" \notin Range(text) =>
      /\ Returned(i)
      /\ "revenue" \in DOMAIN calls[i].returned.financial_data
      /\ calls[i].returned.financial_data.revenue = AmountOf(text, "Turnover", TRUE)
      /\ "turnover" \notin FieldNames(calls[i].returned) \cup DOMAIN calls[i].returned

(* C8: the record format_for_duckdb returns is single-level; its keys are  *)
(* document_id and the fields of company_info, credit_metrics,             *)
(* financial_data and payment_info of the result, each with the value it   *)
(* has in the result; it holds the document_id passed and no date field.   *)
FlatRecordOf(rec, e, document_id) ==
  /\ DOMAIN rec = {"document_id"} \cup UNION {DOMAIN e[c] : c \in MergedCategories \cap DOMAIN e}
  /\ rec.document_id = document_id
  /\ \A c \in MergedCategories \cap DOMAIN e : \A k \in DOMAIN e[c] : rec[k] = e[c][k]
  /\ \A k \in DOMAIN rec : rec[k].kind /= "ref"
  /\ DOMAIN rec \cap DOMAIN DatesFields = {}
C8_FlatRecord ==
  flat.record /= 0 /\ ~flat.changed =>
    FlatRecordOf(heap[flat.record], Deref(heap, flat.extracted), flat.document_id)

C8_Witness ==
  /\ flat.record /= 0 /\ ~flat.changed
  /\ "dates" \in DOMAIN heap[flat.extracted]
  /\ DOMAIN Deref(heap, flat.extracted).dates /= {}
  /\ Cardinality(DOMAIN heap[flat.record]) >= 2

(* C9 as stated: no key of a result of extract_all and no key of a flat    *)
(* record maps to None.                                                    *)
NoNone(d) == \A k \in DOMAIN d : d[k].kind /= "none"
ResultsWithoutNone ==
  \A i \in CallIds :
    Returned(i) =>
      /\ NoNone(heap[calls[i].result])
      /\ \A k \in DOMAIN heap[calls[i].result] :
           heap[calls[i].result][k].kind = "ref" => NoNone(heap[heap[calls[i].result][k].num])
C9_NoNulls ==
  /\ ResultsWithoutNone
  /\ flat.record /= 0 /\ ~flat.changed => NoNone(heap[flat.record])

(* C9 amended: no key of a result of extract_all maps to None, and in a    *)
(* flat record no key but document_id does; document_id is None exactly    *)
(* when the caller passed no document_id.                                  *)
C9_NoNullFields ==
  /\ ResultsWithoutNone
  /\ flat.record /= 0 /\ ~flat.changed =>
       /\ NoNone(Without(heap[flat.record], "document_id"))
       /\ heap[flat.record].document_id = NoneVal <=> flat.document_id = NoneVal

C9_Witness ==
  /\ flat.record /= 0 /\ ~flat.changed
  /\ flat.document_id = NoneVal
  /\ Cardinality(DOMAIN heap[flat.record]) >= 2
  /\ FieldPairs(Deref(heap, flat.extracted)) /= {}

(* C10: format_for_display and format_for_duckdb leave the result they are *)
(* given as it was returned, and so does a later change of the flat        *)
(* record.                                                                 *)
C10_ResultUnchanged ==
  \A i \in CallIds : Returned(i) => Deref(heap, calls[i].result) = calls[i].returned

C10_Witness ==
  /\ flat.record /= 0 /\ flat.changed
  /\ report.extracted = flat.extracted
  /\ FieldPairs(Deref(heap, flat.extracted)) /= {}

(* ---------------------------------------------------------------------- *)
(* C11..C20                                                                *)
(* ---------------------------------------------------------------------- *)

(* the lines of a text, and a text from its lines *)
RECURSIVE SplitLines(_)
SplitLines(t) ==
  LET N == {k \in 1..Len(t) : t[k] \in Newline}
  IN  IF N = {} THEN <<t>>
      ELSE <<SubSeq(t, 1, SetMin(N) - 1)>> \o SplitLines(SubSeq(t, SetMin(N) + 1, Len(t)))

RECURSIVE JoinLines(_)
JoinLines(ls) ==
  IF ls = <<>> THEN <<>>
  ELSE IF Len(ls) = 1 THEN ls[1]
  ELSE ls[1] \o <<"\n">> \o JoinLines(Tail(ls))

DatesLabels == {"Date of Incorporation:", "Report Date:"}
NoDatesLabel(l) == Range(l) \cap DatesLabels = {}
WithoutDatesLines(t) == JoinLines(SelectSeq(SplitLines(t), NoDatesLabel))

(* C11: deleting the lines that carry a Dates label leaves every            *)
(* CreditMetrics and FinancialData field of the result as it was: the same  *)
(* fields are present, with the same values.                                *)
C11_DatesLinesIndependent ==
  \A i \in CallIds :
    Returned(i) /\ text /= <<>> =>
      /\ extract_credit_metrics(init_patterns, WithoutDatesLines(text))
           = [raised |-> FALSE, dict |-> calls[i].returned.credit_metrics]
      /\ extract_financial_data(init_patterns, WithoutDatesLines(text))
           = [raised |-> FALSE, dict |-> calls[i].returned.financial_data]

(* C12: for the five-line text Registration Number: 08765432, Credit Score: *)
(* 75 / 100, Credit Rating: B+ (Good), Revenue (Turnover): 4,850,000 pounds *)
(* and Current Ratio: 1.85, extract_all returns registration_number         *)
(* "08765432", credit_score 75, credit_rating "B+", revenue 4850000.0 and   *)
(* current_ratio 1.85, no other field, a count of 5 and complete = true.    *)
C12_Scenario ==
  \A i \in CallIds :
    text = ScenarioText =>
      /\ Returned(i)
      /\ calls[i].returned.company_info
           = [registration_number |-> StrVal(<<"0", "8", "7", "6", "5", "4", "3", "2">>)]
      /\ calls[i].returned.credit_metrics
           = [credit_score |-> IntVal(75), credit_rating |-> StrVal(<<"B", "+">>)]
      /\ calls[i].returned.financial_data
           = [revenue |-> FloatVal(4850000, 0), current_ratio |-> FloatVal(185, 2)]
      /\ calls[i].returned.payment_info = EmptyDict
      /\ calls[i].returned.dates = EmptyDict
      /\ calls[i].returned.extraction_summary
           = [total_fields_extracted |-> IntVal(5), extraction_complete |-> BoolVal(TRUE)]

C12_Witness == calls /= <<>> /\ text = ScenarioText /\ Returned(1)

(* the monetary fields: the category and the label of each *)
MoneyCategory ==
  [credit_limit |-> "credit_metrics", revenue |-> "financial_data", profit |-> "financial_data",
   total_assets |-> "financial_data", total_liabilities |-> "financial_data",
   net_worth |-> "financial_data"]
MoneyLabel ==
  [credit_limit |-> "Credit Limit", revenue |-> "Revenue", profit |-> "Profit Before Tax",
   total_assets |-> "Total Assets:", total_liabilities |-> "Total Liabilities:",
   net_worth |-> "Net Worth:"]
MoneyFields == DOMAIN MoneyCategory

IsDigit(c) == c \in Digit
DigitsOf(g) == SelectSeq(g, IsDigit)

(* field f is in the result r with the value v *)
Stored(r, c, f, v) == c \in DOMAIN r /\ f \in DOMAIN r[c] /\ r[c][f] = v

(* C13: for every monetary field, a matched value written with a currency   *)
(* symbol and commas is stored as the number its digits form, never as a    *)
(* string with commas or a currency symbol.                                 *)
C13_MoneyStoredAsNumber ==
  \A i \in CallIds : \A f \in MoneyFields :
    /\ TextMatches[f].found
    /\ DigitsOf(TextMatches[f].group1) /= <<>>
    /\ HasValue(text, MoneyLabel[f], TRUE)
    => /\ Returned(i)
       /\ Stored(calls[i].returned, MoneyCategory[f], f,
                 FloatVal(DigitsToNat(DigitsOf(TextMatches[f].group1)), 0))

(* what extract_all(t) returns when it runs alone at time now *)
Alone(t, now) == extract_all(<<>>, init_patterns, t, now)
SameAsAlone(th, a) ==
  /\ threads[th].pc = "raised" => a.raised
  /\ threads[th].pc = "done" =>
       ~a.raised /\ Deref(heap, threads[th].result) = Deref(a.heap, a.result)

PresentWith(r, k, v) ==
  \E c \in Range(Categories) \cap DOMAIN r : k \in DOMAIN r[c] /\ r[c][k] = v

(* C15: a field whose own pattern matches the text is in the result with    *)
(* its value, whatever happens to the other fields: absent, matched, or     *)
(* matched and not convertible.                                             *)
FieldIndependence(m, conv) ==
  \A i \in CallIds : \A k \in Convertible(m, conv) :
    Returned(i) /\ PresentWith(calls[i].returned, k, conv[k].val)
C15_FieldIndependence == FieldIndependence(TextMatches, Conversions(FieldKinds, TextMatches))

(* C16: for every monetary field, a label followed by a number is extracted *)
(* to that number whether or not a currency symbol stands before it.        *)
C16_CurrencyOptional ==
  \A i \in CallIds : \A f \in MoneyFields :
    Returned(i) /\ HasValue(text, MoneyLabel[f], FALSE) =>
      Stored(calls[i].returned, MoneyCategory[f], f, AmountOf(text, MoneyLabel[f], FALSE))

(* the positions of t at which a pattern matches, and the pattern field k   *)
(* is taken from: revenue is taken from Turnover when Revenue matches       *)
(* nowhere                                                                  *)
MatchStarts(pat, t) == {p \in 1..Len(t) : MatchAt(pat, t, p).found}
PatternOf(k, t) ==
  IF k /= "revenue" THEN init_patterns[k]
  ELSE IF MatchStarts(init_patterns.revenue, t) /= {} THEN init_patterns.revenue
  ELSE init_patterns.turnover

(* the value captured at the first of the positions S *)
FirstCapture(k, t, S) == Convert(FieldKinds[k], MatchAt(PatternOf(k, t), t, SetMin(S)).group1)
LastCapture(k, t, S) == Convert(FieldKinds[k], MatchAt(PatternOf(k, t), t, SetMax(S)).group1)

StoresFirst(r, k, S) ==
  Cardinality(S) > 1 => PresentWith(r, k, FirstCapture(k, text, S).val)

(* C17: when the pattern of a field matches at more than one place in the   *)
(* text, the value stored for the field is the one captured at the first    *)
(* of these places; a later one never replaces it.                          *)
C17_FirstOccurrenceWins ==
  \A i \in CallIds : \A k \in DOMAIN FieldKinds :
    Returned(i) /\ text /= <<>> =>
      StoresFirst(calls[i].returned, k, MatchStarts(PatternOf(k, text), text))

StoredFirstOfTwo(r, k, S) ==
  /\ Cardinality(S) > 1
  /\ FirstCapture(k, text, S) /= LastCapture(k, text, S)
  /\ PresentWith(r, k, FirstCapture(k, text, S).val)
C17_Witness ==
  \E i \in CallIds : \E k \in {"credit_limit", "revenue"} :
    /\ Returned(i)
    /\ StoredFirstOfTwo(calls[i].returned, k, MatchStarts(PatternOf(k, text), text))

(* the string fields: the category and the label of each *)
StringCategory ==
  [company_name |-> "company_info", risk_level |-> "credit_metrics",
   payment_terms |-> "payment_info"]
StringLabel ==
  [company_name |-> "Company Name:", risk_level |-> "Risk Level:",
   payment_terms |-> "Payment Terms:"]

(* what stands after the label at p on its own line, trimmed *)
ValueOnLine(t, p) == strip(SubSeq(t, p + 1, LineEnd(t, p) - 1))
LabelAt(t, l) == {p \in 1..Len(t) : t[p] = l}

Trimmed(v) == v.kind = "str" /\ v.s /= <<>> /\ v.s = strip(v.s)

(* C18: a string field is stored without surrounding whitespace, and a      *)
(* label with nothing but whitespace after it on its line is no match: the  *)
(* field is absent, not an empty string and not text of a following line.   *)
C18_StringsTrimmedOrAbsent ==
  \A i \in CallIds : \A f \in DOMAIN StringLabel :
    Returned(i) /\ text /= <<>> =>
      /\ f \in DOMAIN calls[i].returned[StringCategory[f]] =>
           Trimmed(calls[i].returned[StringCategory[f]][f])
      /\ (\A p \in LabelAt(text, StringLabel[f]) : ValueOnLine(text, p) = <<>>) =>
           f \notin DOMAIN calls[i].returned[StringCategory[f]]

(* the numbers of a result: of its fields and of its summary *)
NumbersOf(r) ==
  {r[p[1]][p[2]] : p \in {q \in FieldPairs(r) : r[q[1]][q[2]].kind \in {"int", "float"}}}
    \cup (IF HasSummary(r) THEN {r.extraction_summary.total_fields_extracted} ELSE {})

(* C19: every number in a result of extract_all is non-negative, also when  *)
(* a minus sign stands before the number in the text.                       *)
C19_NonNegative ==
  \A i \in CallIds : Returned(i) => \A v \in NumbersOf(calls[i].returned) : v.num >= 0

(* a minus sign before the value of a field that is extracted *)
C19_Witness ==
  \E i \in CallIds :
    /\ Returned(i)
    /\ text = <<"Credit Limit", ":", " ", "-", "7">>
    /\ calls[i].returned.credit_metrics = [credit_limit |-> FloatVal(7, 0)]

PercentFields == {"profit_margin", "on_time_percentage"}

(* the format the report is to give to the field key *)
FormatDue(key) ==
  IF key \in MoneyFields THEN "currency"
  ELSE IF key \in PercentFields THEN "percent"
  ELSE "plain"

(* C20: in the report of format_for_display every monetary field present    *)
(* is written as currency, whatever its size, every percentage field        *)
(* present is written as a percentage, and every other field as neither.    *)
C20_DisplayFormats ==
  \A n \in 1..Len(report.lines) :
    report.lines[n].kind = "field" /\ report.lines[n].key \in DOMAIN FieldKinds =>
      report.lines[n].fmt = FormatDue(report.lines[n].key)

(* ---------------------------------------------------------------------- *)
(* C21..C27                                                                *)
(* ---------------------------------------------------------------------- *)

SectionOrder ==
  <<"COMPANY INFORMATION", "CREDIT METRICS", "FINANCIAL DATA", "PAYMENT INFORMATION",
    "EXTRACTION SUMMARY">>
CategoryOfTitle ==
  [t \in Range(SectionOrder) \ {"EXTRACTION SUMMARY"} |->
     CHOOSE c \in DOMAIN SectionTitle : SectionTitle[c] = t]

(* the lines of the report at which the section with title t begins, and    *)
(* the title of the section line n is in                                    *)
TitleAt(ls, t) == {n \in 1..Len(ls) : ls[n].kind = "title" /\ ls[n].key = t}
SectionOf(ls, n) ==
  ls[SetMax({m \in 1..n : ls[m].kind = "title"})].key

(* label is key with every underscore a blank and every word capitalised *)
Humanized(label, key) ==
  /\ Len(label) = Len(key)
  /\ \A n \in 1..Len(key) :
       IF key[n] = "_" THEN label[n] = " "
       ELSE /\ lower(label[n]) = key[n]
            /\ label[n] \in Range(UpperCase) <=> (n = 1 \/ key[n - 1] = "_")

ReportInOrder(ls, r) ==
  /\ \A n \in 1..Len(ls) :
       ls[n].kind = "title" /\ n > 2 => ls[n].key \in Range(SectionOrder)
  /\ \A a, b \in 1..Len(SectionOrder) :
       a < b => \A n \in TitleAt(ls, SectionOrder[a]), m \in TitleAt(ls, SectionOrder[b]) : n < m
  /\ \A t \in DOMAIN CategoryOfTitle :
       /\ Cardinality(TitleAt(ls, t)) <= 1
       /\ TitleAt(ls, t) /= {} <=>
            CategoryOfTitle[t] \in DOMAIN r /\ DOMAIN r[CategoryOfTitle[t]] /= {}
  /\ TitleAt(ls, "EXTRACTION SUMMARY") /= {} <=> HasSummary(r)
  /\ \A n \in 1..Len(ls) :
       ls[n].kind = "field" /\ ls[n].key \in DOMAIN KeyChars =>
         /\ SectionOf(ls, n) \in DOMAIN CategoryOfTitle
         /\ ls[n].key \in DOMAIN r[CategoryOfTitle[SectionOf(ls, n)]]
         /\ Humanized(ls[n].label, KeyChars[ls[n].key])
  /\ \A n \in 1..Len(ls) : ls[n].key \notin DOMAIN DatesFields
  /\ \A n \in 1..Len(ls) :
       ls[n].key = "credit_limit" =>
         ls[n].label = <<"C", "r", "e", "d", "i", "t", " ", "L", "i", "m", "i", "t">>

(* C21: in the report the sections that appear are in the order company     *)
(* information, credit metrics, financial data, payment information,        *)
(* summary; a category without fields has no section, the dates have none,  *)
(* and a field's label is its key with blanks for underscores and every     *)
(* word capitalised.                                                        *)
C21_ReportOrder ==
  report.extracted /= 0 => ReportInOrder(report.lines, Deref(heap, report.extracted))

(* a report with a credit limit, of a result that has a date and no         *)
(* company information                                                      *)
C21_Witness ==
  /\ report.extracted /= 0
  /\ \E n \in 1..Len(report.lines) : report.lines[n].key = "credit_limit"
  /\ DOMAIN Deref(heap, report.extracted).dates /= {}
  /\ DOMAIN Deref(heap, report.extracted).company_info = {}
  /\ TitleAt(report.lines, "EXTRACTION SUMMARY") /= {}

(* the process_document calls made so far *)
RunIds == 1..Len(runs)
Supported(name) == lower_str(suffix(name)) \in pdf_formats \cup image_formats
MustFail(file) == file.stat /= "exists" \/ ~Supported(file.name) \/ file.content.raised

StatusRecord(file, result) ==
  IF MustFail(file)
  THEN /\ ~result.success
       /\ result.text = <<>>
       /\ result.error.kind = "str" /\ result.error.s /= <<>>
  ELSE /\ result.success
       /\ result.error = NoneVal
       /\ result.text = clean_text(result.raw_text)

(* C22: process_document never raises; its record has success false, the   *)
(* empty text and a non-empty error message for a file that is not there,  *)
(* an extension that is not supported or an extractor that fails, and has  *)
(* success true, no error and the cleaned raw text otherwise.              *)
C22_StatusRecord ==
  \A n \in RunIds :
    /\ ~runs[n].processing.raised
    /\ StatusRecord(runs[n].file, runs[n].processing.result)

(* the non-empty lines of t, each with its runs of whitespace collapsed    *)
(* and its ends stripped, joined by single newlines                        *)
LinesKept(t) ==
  LET lines == split(t, "\n")
      kept == [n \in 1..Len(lines) |-> strip_line(sub_whitespace(lines[n]))]
  IN  join(<<"\n">>, SelectSeq(kept, NotEmpty))

(* C23: clean_text keeps the lines of its input: the text of a successful  *)
(* result is the non-empty lines of the raw text, stripped and collapsed,  *)
(* one per line; the empty text gives the empty text.                      *)
C23_CleanTextKeepsLines ==
  \A n \in RunIds :
    ~runs[n].processing.raised /\ runs[n].processing.result.success =>
      runs[n].processing.result.text = LinesKept(runs[n].processing.result.raw_text)

(* the exchanges saved under session s since its last clear, in the order *)
(* of the save_conversation calls                                          *)
LastClear(s) ==
  LET C == {n \in 1..Len(oplog) : oplog[n].op = "clear" /\ oplog[n].session_id = s}
  IN  IF C = {} THEN 0 ELSE SetMax(C)
Ascending(I) ==
  CHOOSE f \in [1..Cardinality(I) -> I] : \A a, b \in 1..Cardinality(I) : a < b => f[a] < f[b]
SavedSince(s) ==
  LET I == {n \in (LastClear(s) + 1)..Len(oplog) :
              oplog[n].op = "save" /\ oplog[n].session_id = s}
  IN  [k \in 1..Cardinality(I) |-> oplog[Ascending(I)[k]].entry]
MostRecent(q, limit) == SubSeq(q, Len(q) - Min(limit, Len(q)) + 1, Len(q))

(* C24: get_conversation_history(s, limit) returns the exchanges saved     *)
(* under s since the last clear of s, the limit most recently saved of     *)
(* them, oldest first in the order they were saved.                        *)
C24_HistoryInSavedOrder ==
  history.asked =>
    history.rows = MostRecent(SavedSince(history.session_id), history.limit)

(* the rows of session s in the table, in rowid order *)
RowsOf(rows, s) ==
  LET Of(row) == row.session_id = s
  IN  SelectSeq(rows, Of)

(* this step is the call clear_session_history(s) *)
Clears(s) ==
  /\ Len(oplog') = Len(oplog) + 1
  /\ oplog'[Len(oplog')].op = "clear"
  /\ oplog'[Len(oplog')].session_id = s

ClearFrame(s) ==
  /\ RowsOf(conversations', s) = <<>>
  /\ \A o \in SessionIds \ {s} : RowsOf(conversations', o) = RowsOf(conversations, o)
  /\ Len(conversations') = Len(conversations) - Len(RowsOf(conversations, s))
  /\ documents' = documents
  /\ metrics' = metrics

(* C25: clear_session_history(s) removes every conversation of session s   *)
(* and leaves the conversations of the other sessions, the documents table *)
(* and the financial metrics as they were.                                 *)
C25_ClearFrame ==
  [][\A s \in SessionIds : Clears(s) => ClearFrame(s)]_vars

(* session s has just been cleared of a conversation it had, another       *)
(* session has one, and there is a document and a row of metrics           *)
C25_Witness ==
  /\ oplog /= <<>>
  /\ oplog[Len(oplog)].op = "clear"
  /\ \E n \in 1..Len(oplog) :
       oplog[n].op = "save" /\ oplog[n].session_id = oplog[Len(oplog)].session_id
  /\ conversations /= <<>>
  /\ documents /= <<>>
  /\ metrics /= <<>>

(* the sessions whose get_db call has returned *)
Got == {s \in Sessions : getters[s].pc = "done"}

(* C26: over any interleaving of get_db calls at most one DatabaseManager  *)
(* is constructed and every call returns that one instance.                *)
C26_Singleton ==
  /\ managers <= 1
  /\ \A s, t \in Got : getters[s].db = getters[t].db

(* run n of the list rs is a process_document call that returned a record *)
(* with success true, resp. false                                          *)
Succeeded(rs, n) == ~rs[n].processing.raised /\ rs[n].processing.result.success
Failed(rs, n) == ~rs[n].processing.raised /\ ~rs[n].processing.result.success

(* the session's document and text are those of the last successful       *)
(* processing, and None when there was none                                *)
FromSameResult(s, rs) ==
  LET S == {n \in 1..Len(rs) : Succeeded(rs, n)}
  IN  IF S = {} THEN s = NoSession
      ELSE /\ s.current_document = StrVal(rs[SetMax(S)].processing.result.file_name)
           /\ s.extracted_text = StrVal(rs[SetMax(S)].processing.result.text)

(* this step is a call of process_uploaded_document *)
Uploads == Len(runs') = Len(runs) + 1

UploadFrame ==
  /\ Failed(runs', Len(runs')) =>
       /\ session' = session
       /\ documents' = documents
       /\ processed' = processed
  /\ ~Succeeded(runs', Len(runs')) => session' = session
  /\ Len(documents') > Len(documents) \/ processed' /= processed => Succeeded(runs', Len(runs'))
  /\ FromSameResult(session', runs')

(* C27: a processing that fails leaves current_document and extracted_text *)
(* as they were and saves no metadata row and no text file; only a         *)
(* successful processing replaces the current document, and the document   *)
(* and the text of the session are those of one processing result.         *)
C27_FailureChangesNothing ==
  [][Uploads => UploadFrame]_vars

(* a document was processed and saved, then a processing failed, and the   *)
(* session still has the first document                                    *)
C27_Witness ==
  /\ Len(runs) = 2
  /\ Succeeded(runs, 1) /\ runs[1].outcome = "success"
  /\ Failed(runs, 2)
  /\ session.current_document = StrVal(runs[1].file.name)
  /\ session.extracted_text.s /= <<>>
  /\ Len(documents) = 1
  /\ DOMAIN processed /= {}

====
